---- MODULE Spec2Model ----
(***************************************************************************)
(* Model of src/bot.py: the OTP poll worker (otp_worker), the fan-out      *)
(* (send_to_all_groups), the in-memory state dict with its persistence     *)
(* (load_state / save_state) and the command handlers that mutate it.      *)
(*                                                                         *)
(* Scheduling: everything runs on one asyncio event loop.  otp_worker is   *)
(* its own task; command and chat-member handlers are run one update at a  *)
(* time by the Application (no concurrent_updates).  Control changes hands *)
(* only at an await, so every action below is the code between two awaits. *)
(***************************************************************************)
EXTENDS Integers, Sequences, FiniteSets, TLC

\* ---------------------------------------------------------------- bounds
MaxOps == 3
MaxRestarts == 1

\* ------------------------------------------------------------- constants
OWNER_ID == 1
Users == {1, 2}

\* Python None, and what an f-string / str() makes of it.
NoneVal == "<None>"
Str(v) == IF v = NoneVal THEN "None" ELSE v

\* chat_id arguments an admin may type.
Keys == {"1", "@c"}

\* int(cid_str) in send_to_all_groups, with the except branch that keeps the
\* string.  The platform's numeric chat ids are written in canonical decimal.
IsIntLiteral(k) == k \in {"1"}
IntOf(k) == k
ToChatId(k) == IF IsIntLiteral(k) THEN IntOf(k) ELSE k
Chats == {ToChatId(k) : k \in Keys}

\* button_text and button_url arguments an admin may type
Buttons == {<<"b2", "u2">>}

\* ------------------------------------------------------- the groups dict
\* state["groups"] is an insertion-ordered dict.  It is modelled as CPython
\* keeps it: an entry array where a deleted entry leaves a dummy slot, new
\* keys are appended, and the array is compacted when an insertion finds it
\* full.
Dummy == "<dummy>"
DictUsable == 5
Tomb == [key |-> Dummy, title |-> Dummy, button_text |-> Dummy,
         button_url |-> Dummy, messages |-> 0, enabled |-> Dummy]

IsLiveEntry(e) == e.key # Dummy
LiveEntries(d) == SelectSeq(d, IsLiveEntry)
DictLen(d) == Len(LiveEntries(d))
DictKeys(d) == {d[i].key : i \in {j \in 1..Len(d) : d[j].key # Dummy}}
DictHas(d, k) == k \in DictKeys(d)
DictIndex(d, k) == CHOOSE i \in 1..Len(d) : d[i].key = k
DictGet(d, k) == d[DictIndex(d, k)]

\* Variant of DictSet that never looks for the key: every assignment adds
\* an entry.
DictSetAppend(d, k, rec) == Append(d, rec)

\* d[k] = rec
DictSet(d, k, rec) ==
    IF DictHas(d, k) THEN [d EXCEPT ![DictIndex(d, k)] = rec]
    ELSE IF Len(d) >= DictUsable THEN Append(LiveEntries(d), rec)
    ELSE Append(d, rec)

\* d.pop(k, None)
DictPop(d, k) ==
    IF DictHas(d, k) THEN [d EXCEPT ![DictIndex(d, k)] = Tomb] ELSE d

\* ---------------------------------------------------------------- events
\* What fetch_latest_sms returns: None ("absent"), a dict ("dict"), or some
\* other truthy JSON value such as a string taken from a list ("str").
\* Text is a sequence of characters so that lower() and the substring test
\* are computed, not assumed.
BodyOTP == <<"O", "T", "P">>
BodyCode == <<"a", "C", "o", "d", "e">>
BodyShip == <<"s", "h", "i", "p">>

Sms(num, dt, message, text) ==
    [kind |-> "dict", num |-> num, dt |-> dt, message |-> message,
     text |-> text]
Absent == [kind |-> "absent", num |-> NoneVal, dt |-> NoneVal,
           message |-> <<>>, text |-> <<>>]
Garbage == [kind |-> "str", num |-> NoneVal, dt |-> NoneVal,
            message |-> <<>>, text |-> <<>>]
Events == { Sms("n1", "t1", BodyOTP, <<>>),
            Sms("n2", NoneVal, <<>>, BodyCode),
            Sms("n1", "t1", BodyShip, <<>>) }
FetchResults == {Absent, Garbage} \cup Events

\* f"{sms.get('num')}_{sms.get('dt')}"
MsgId(sms) == Str(sms.num) \o "_" \o Str(sms.dt)
Fingerprints == {MsgId(e) : e \in Events}

\* sms.get("dt") or datetime.now(timezone.utc).strftime(...) in
\* format_message: the time shown for an event, now being the clock reading
\* of the poll that fetched it.
TimeSent(sms, now) == IF sms.dt = NoneVal THEN now ELSE sms.dt

\* The clock readings of two consecutive polls; asyncio.sleep(POLL_INTERVAL)
\* lies between them.
ClockReadings == <<"now1", "now2">>

\* sms.get("message") or sms.get("text") or ""
Content(sms) ==
    IF Len(sms.message) > 0 THEN sms.message
    ELSE IF Len(sms.text) > 0 THEN sms.text
    ELSE <<>>

LowerChar(c) ==
    CASE c = "O" -> "o" [] c = "T" -> "t" [] c = "P" -> "p"
      [] c = "C" -> "c" [] OTHER -> c
\* Variant of Lower that leaves the text as it is.
LowerAsIs(s) == s

\* content.lower()
Lower(s) == [i \in 1..Len(s) |-> LowerChar(s[i])]

\* k in content
IsSubstring(k, s) ==
    \E i \in 0..(Len(s) - Len(k)) : \A j \in 1..Len(k) : s[i + j] = k[j]

\* The two Arabic keywords are spelled by their letter names.
keywords == << <<"o", "t", "p">>,
               <<"c", "o", "d", "e">>,
               <<"v", "e", "r", "i", "f", "y">>,
               <<"reh", "meem", "zain">>,
               <<"p", "a", "s", "s", "w", "o", "r", "d">>,
               <<"kaf", "waw", "dal">> >>

\* any(k in content for k in keywords), content already lower-cased
HasKeyword(content) ==
    \E n \in 1..Len(keywords) : IsSubstring(keywords[n], content)

\* Variant of ShouldForward without the comparison with last_msg_id.
ShouldForwardNoCursor(sms, last) == HasKeyword(Lower(Content(sms)))

\* msg_id != last_msg_id and any(k in content for k in keywords)
ShouldForward(sms, last) ==
    /\ MsgId(sms) # last
    /\ HasKeyword(Lower(Content(sms)))

\* ----------------------------------------------------------------- state
VARIABLES
    groups,       \* state["groups"], as an entry array
    admins,       \* state["admins"]
    persisted,    \* the stored document (MongoDB settings doc or state.json)
    writable,     \* whether the backend accepts writes in this run
    phase,        \* "boot" before on_startup has run, "run" after
    wpc,          \* otp_worker: "off", "fetch", "send", "sleep"
    last_msg_id,  \* otp_worker's local last_msg_id
    fan,          \* the running send_to_all_groups calls, by caller
    reply,        \* the last reply_text of a command handler
    ops,          \* number of fetches and handled updates so far
    lastFetch,    \* history: what the previous fetch returned
    batches,      \* history: fan-outs this process's worker started, per
                  \* fingerprint
    delivered,    \* history: this process's successful sends, per chat and
                  \* payload
    restarts,     \* number of times the process has been started again
    stale         \* history: the last event the previous process forwarded

vars == <<groups, admins, persisted, writable, phase, wpc, last_msg_id, fan,
          reply, ops, lastFetch, batches, delivered, restarts, stale>>

Callers == {"worker", "bcast"}
BroadcastText == "bc"
Payloads == Fingerprints \cup {BroadcastText}

\* -------------------------------------------------------------- records
GroupRec(k, title, bt, bu, m, en) ==
    [key |-> k, title |-> title, button_text |-> bt, button_url |-> bu,
     messages |-> m, enabled |-> en]

\* The stored document.  "enabled" is a key no handler of bot.py writes or
\* reads; a document can carry it all the same, and load_state keeps
\* whatever the document holds.
NoDoc == [present |-> FALSE, groups |-> <<>>, admins |-> {}]
DocA == [present |-> TRUE,
         groups |-> << GroupRec("1", "1", "b1", "u1", 1, "absent"),
                       GroupRec("@c", "@c", "b1", "u1", 0, "false") >>,
         admins |-> {2}]
InitDocs == {NoDoc, DocA}

\* Variant of SaveState that writes the groups and leaves the stored admins.
SaveStateGroupsOnly(g, a) ==
    IF writable
    THEN [present |-> TRUE, groups |-> LiveEntries(g),
          admins |-> persisted.admins]
    ELSE persisted

\* save_state(): _save_state_to_db / _save_state_to_file swallow every
\* exception, so a failed write leaves the document as it was.  Whether the
\* backend takes writes is a fact of the run (writable).
SaveState(g, a) ==
    IF writable
    THEN [present |-> TRUE, groups |-> LiveEntries(g), admins |-> a]
    ELSE persisted

\* Variant of is_admin that lets everybody in.
is_adminAnyone(u) == TRUE

\* is_admin(user_id)
is_admin(u) == (u \in admins) \/ (u = OWNER_ID)

\* ----------------------------------------- iteration of groups.items()
\* A dict iterator remembers the size it started with (used), the next slot
\* to look at (pos) and how many items it still expects (remaining).
\* The other fields are the loop's g (cur: its key, live: whether that dict
\* is still the value under its key), the text being sent (payload), how
\* the call ended (outcome), and history: the keys attempted (tried),
\* whether a send raised (anyFailed), whether a handler added or removed a
\* key while the call was running (touched).
NoFan == [active |-> FALSE, pos |-> 1, used |-> 0, remaining |-> 0,
          cur |-> NoneVal, live |-> FALSE, payload |-> NoneVal,
          outcome |-> "none", tried |-> <<>>, anyFailed |-> FALSE,
          touched |-> FALSE]

NextLivePos(d, p) ==
    IF \E i \in p..Len(d) : IsLiveEntry(d[i])
    THEN CHOOSE i \in p..Len(d) :
            /\ IsLiveEntry(d[i])
            /\ \A j \in p..(i - 1) : ~IsLiveEntry(d[j])
    ELSE 0

\* One turn of "for cid_str, g in groups.items()": either the loop body is
\* entered for the next item and runs up to "await send_message", or the
\* loop ends (the call returns), or the iterator raises RuntimeError, which
\* nothing inside send_to_all_groups catches.
LoopTurn(fr, d) ==
    LET i == NextLivePos(d, fr.pos) IN
    IF fr.used # DictLen(d)
    THEN [fr EXCEPT !.active = FALSE, !.cur = NoneVal, !.live = FALSE,
                    !.outcome = "raised"]
    ELSE IF i = 0
    THEN [fr EXCEPT !.active = FALSE, !.cur = NoneVal, !.live = FALSE,
                    !.outcome = "returned"]
    ELSE IF fr.remaining = 0
    THEN [fr EXCEPT !.active = FALSE, !.cur = NoneVal, !.live = FALSE,
                    !.outcome = "raised"]
    ELSE [fr EXCEPT !.pos = i + 1, !.remaining = fr.remaining - 1,
                    !.cur = d[i].key, !.live = TRUE,
                    !.tried = Append(fr.tried, d[i].key)]

\* send_to_all_groups(app, text) up to its first await
StartFanout(d, payload) ==
    LoopTurn([NoFan EXCEPT !.active = TRUE, !.used = DictLen(d),
                           !.remaining = DictLen(d), !.payload = payload], d)

\* Variant of Increment that reads the count before the send and writes
\* it after: of two sends to one destination that are pending together,
\* only the one that completes last counts.
IncrementRacy(d, fr) ==
    IF \E c \in Callers :
          fan[c].active /\ fan[c] # fr /\ fan[c].cur = fr.cur
    THEN d
    ELSE IF fr.live /\ DictHas(d, fr.cur)
    THEN [d EXCEPT ![DictIndex(d, fr.cur)].messages = @ + 1]
    ELSE d

\* g["messages"] = g.get("messages", 0) + 1, where g is the dict the loop
\* got from the iterator: the store sees it only while g is still the value
\* under its key.
Increment(d, fr) ==
    IF fr.live /\ DictHas(d, fr.cur)
    THEN [d EXCEPT ![DictIndex(d, fr.cur)].messages = @ + 1]
    ELSE d

\* A handler replaced or popped the value under key k: a loop that holds
\* that value keeps a dict that is no longer in the store.
Detach(f, k) ==
    [c \in Callers |->
        IF f[c].active /\ f[c].cur = k THEN [f[c] EXCEPT !.live = FALSE]
        ELSE f[c]]

\* History: a handler added or removed a key while a fan-out was running.
Touch(f, changed) ==
    [c \in Callers |->
        IF f[c].active /\ changed THEN [f[c] EXCEPT !.touched = TRUE]
        ELSE f[c]]

\* ------------------------------------------------------------------ Init
\* Module level of bot.py: empty groups, the owner in admins, no worker yet.
Init ==
    /\ groups = <<>>
    /\ admins = {OWNER_ID}
    /\ persisted \in InitDocs
    /\ writable \in BOOLEAN
    /\ phase = "boot"
    /\ wpc = "off"
    /\ last_msg_id = NoneVal
    /\ fan = [c \in Callers |-> NoFan]
    /\ reply = NoneVal
    /\ ops = 0
    /\ lastFetch = Absent
    /\ batches = [fp \in Fingerprints |-> 0]
    /\ delivered = [x \in Chats \X Payloads |-> 0]
    /\ restarts = 0
    /\ stale = NoneVal

\* --------------------------------------------------------------- startup
\* load_state(): "ok" reads the document; "fail" raises before anything is
\* assigned (unreadable backend, malformed JSON) and the except clause logs.
LoadOutcomes == {"ok", "fail"}

\* Variant of LoadedGroups that takes the stored groups whatever became of
\* the read.
LoadedGroupsAnyway(outcome) ==
    IF persisted.present THEN persisted.groups ELSE groups

LoadedGroups(outcome) ==
    IF persisted.present /\ outcome = "ok"
    THEN persisted.groups ELSE groups

LoadedAdmins(outcome) ==
    IF persisted.present /\ outcome = "ok"
    THEN persisted.admins \cup {OWNER_ID} ELSE admins

\* on_startup(app): load_state(), then create_task(otp_worker(app))
OnStartup(outcome) ==
    /\ phase = "boot"
    /\ groups' = LoadedGroups(outcome)
    /\ admins' = LoadedAdmins(outcome)
    /\ phase' = "run"
    /\ wpc' = "fetch"
    /\ last_msg_id' = NoneVal
    /\ UNCHANGED <<persisted, writable, fan, reply, ops, lastFetch,
                   batches, delivered>>
    /\ UNCHANGED <<restarts, stale>>

\* ---------------------------------------------------------------- worker
\* One pass of the while loop from "sms = await to_thread(fetch_latest_sms)"
\* to the next await: the first send_message of the fan-out, or the sleep.
\* An sms that is not a dict makes sms.get raise; the except clause logs it.
Fetch(sms) ==
    /\ wpc = "fetch"
    /\ ops < MaxOps
    /\ ops' = ops + 1
    /\ lastFetch' = sms
    /\ IF sms.kind = "dict" /\ ShouldForward(sms, last_msg_id)
       THEN LET fr == StartFanout(groups, MsgId(sms)) IN
            /\ fan' = [fan EXCEPT !["worker"] = fr]
            /\ batches' = [batches EXCEPT ![MsgId(sms)] = @ + 1]
            /\ wpc' = IF fr.active THEN "send" ELSE "sleep"
            /\ last_msg_id' = IF fr.active THEN last_msg_id ELSE MsgId(sms)
       ELSE /\ wpc' = "sleep"
            /\ UNCHANGED <<fan, batches, last_msg_id>>
    /\ UNCHANGED <<groups, admins, persisted, writable, phase, reply,
                   delivered>>
    /\ UNCHANGED <<restarts, stale>>

\* await asyncio.sleep(POLL_INTERVAL) is over
Wake ==
    /\ wpc = "sleep"
    /\ wpc' = "fetch"
    /\ UNCHANGED <<groups, admins, persisted, writable, phase, last_msg_id,
                   fan, reply, ops, lastFetch, batches, delivered>>
    /\ UNCHANGED <<restarts, stale>>

\* ---------------------------------------------------------------- fan-out
\* Variant of AfterFanout in which otp_worker has no except clause: a call
\* that raised ends the task.
AfterFanoutDies(c, fr) ==
    /\ wpc' = IF c = "worker"
              THEN (IF fr.active THEN "send"
                    ELSE IF fr.outcome = "raised" THEN "off" ELSE "sleep")
              ELSE wpc
    /\ last_msg_id' = IF c = "worker" /\ fr.outcome = "returned"
                      THEN fr.payload ELSE last_msg_id
    /\ reply' = IF c = "bcast" /\ ~fr.active
                THEN (IF fr.outcome = "returned" THEN "Broadcast sent"
                      ELSE "<raised>")
                ELSE reply

\* What the caller does when send_to_all_groups is over.  otp_worker sets
\* last_msg_id after a normal return and skips it when the call raised (its
\* except clause logs); cmd_broadcast replies after a normal return.
AfterFanout(c, fr) ==
    /\ wpc' = IF c = "worker" THEN (IF fr.active THEN "send" ELSE "sleep")
              ELSE wpc
    /\ last_msg_id' = IF c = "worker" /\ fr.outcome = "returned"
                      THEN fr.payload ELSE last_msg_id
    /\ reply' = IF c = "bcast" /\ ~fr.active
                THEN (IF fr.outcome = "returned" THEN "Broadcast sent"
                      ELSE "<raised>")
                ELSE reply

\* await send_message(...) returned: count, save, go round the loop.
SendOk(c) ==
    /\ fan[c].active
    /\ LET g1 == Increment(groups, fan[c])
           fr == LoopTurn(fan[c], g1) IN
       /\ groups' = g1
       /\ persisted' = SaveState(g1, admins)
       /\ fan' = [fan EXCEPT ![c] = fr]
       /\ delivered' = [delivered EXCEPT
                          ![<<ToChatId(fan[c].cur), fan[c].payload>>] = @ + 1]
       /\ AfterFanout(c, fr)
    /\ UNCHANGED <<admins, writable, phase, ops, lastFetch, batches>>
    /\ UNCHANGED <<restarts, stale>>

\* await send_message(...) raised: log, go round the loop.
SendFail(c) ==
    /\ fan[c].active
    /\ LET fr == LoopTurn([fan[c] EXCEPT !.anyFailed = TRUE], groups) IN
       /\ fan' = [fan EXCEPT ![c] = fr]
       /\ AfterFanout(c, fr)
    /\ UNCHANGED <<groups, admins, persisted, writable, phase, ops, lastFetch,
                   batches, delivered>>
    /\ UNCHANGED <<restarts, stale>>

\* --------------------------------------------------------------- handlers
\* The Application hands one update at a time to its handler, so a handler
\* starts only when no other handler (in particular no broadcast) is still
\* running; the worker task may be suspended at any of its awaits meanwhile.
\* Every handler below changes the state before its first await.
\* The group and roster commands arrive with the arguments their usage line
\* asks for.
CanHandle ==
    /\ phase = "run"
    /\ ~fan["bcast"].active
    /\ ops < MaxOps

\* /addgroup <chat_id> <button_text> <button_url>
cmd_addgroup(u, k, b) ==
    /\ CanHandle
    /\ ops' = ops + 1
    /\ IF ~is_admin(u)
       THEN /\ reply' = "not admin"
            /\ UNCHANGED <<groups, persisted, fan>>
       ELSE LET g1 == DictSet(groups, k,
                              GroupRec(k, k, b[1], b[2], 0, "absent")) IN
            /\ groups' = g1
            /\ fan' = Touch(Detach(fan, k), ~DictHas(groups, k))
            /\ persisted' = SaveState(g1, admins)
            /\ reply' = "added"
    /\ UNCHANGED <<admins, writable, phase, wpc, last_msg_id, lastFetch,
                   batches, delivered>>
    /\ UNCHANGED <<restarts, stale>>

\* Variant of cmd_removegroup without the test "chat_id in state['groups']".
cmd_removegroupUnguarded(u, k) ==
    /\ CanHandle
    /\ ops' = ops + 1
    /\ IF ~is_admin(u)
       THEN /\ reply' = "not admin"
            /\ UNCHANGED <<groups, persisted, fan>>
       ELSE LET g1 == DictPop(groups, k) IN
            /\ groups' = g1
            /\ fan' = Touch(Detach(fan, k), TRUE)
            /\ persisted' = SaveState(g1, admins)
            /\ reply' = "removed"
    /\ UNCHANGED <<admins, writable, phase, wpc, last_msg_id, lastFetch,
                   batches, delivered>>
    /\ UNCHANGED <<restarts, stale>>

\* /removegroup <chat_id>
cmd_removegroup(u, k) ==
    /\ CanHandle
    /\ ops' = ops + 1
    /\ IF ~is_admin(u)
       THEN /\ reply' = "not admin"
            /\ UNCHANGED <<groups, persisted, fan>>
       ELSE IF DictHas(groups, k)
       THEN LET g1 == DictPop(groups, k) IN
            /\ groups' = g1
            /\ fan' = Touch(Detach(fan, k), TRUE)
            /\ persisted' = SaveState(g1, admins)
            /\ reply' = "removed"
       ELSE /\ reply' = "not found"
            /\ UNCHANGED <<groups, persisted, fan>>
    /\ UNCHANGED <<admins, writable, phase, wpc, last_msg_id, lastFetch,
                   batches, delivered>>
    /\ UNCHANGED <<restarts, stale>>

\* /setbutton <chat_id> <button_text> <button_url>: edits the dict in place
cmd_setbutton(u, k, b) ==
    /\ CanHandle
    /\ ops' = ops + 1
    /\ IF ~is_admin(u)
       THEN /\ reply' = "not admin"
            /\ UNCHANGED <<groups, persisted>>
       ELSE IF ~DictHas(groups, k)
       THEN /\ reply' = "not found"
            /\ UNCHANGED <<groups, persisted>>
       ELSE LET g1 == [groups EXCEPT
                         ![DictIndex(groups, k)].button_text = b[1],
                         ![DictIndex(groups, k)].button_url = b[2]] IN
            /\ groups' = g1
            /\ persisted' = SaveState(g1, admins)
            /\ reply' = "button updated"
    /\ UNCHANGED <<admins, writable, phase, wpc, last_msg_id, fan, lastFetch,
                   batches, delivered>>
    /\ UNCHANGED <<restarts, stale>>

\* int(context.args[0]) for the user-id argument
AdminArgs == {"1", "2", "x"}
IsUserIdLiteral(a) == a \in {"1", "2"}
UserIdOf(a) == IF a = "1" THEN 1 ELSE 2

\* /addadmin <user_id>
cmd_addadmin(u, a) ==
    /\ CanHandle
    /\ ops' = ops + 1
    /\ IF u # OWNER_ID
       THEN /\ reply' = "only owner"
            /\ UNCHANGED <<admins, persisted>>
       ELSE IF ~IsUserIdLiteral(a)
       THEN /\ reply' = "invalid user id"
            /\ UNCHANGED <<admins, persisted>>
       ELSE LET a1 == admins \cup {UserIdOf(a)} IN
            /\ admins' = a1
            /\ persisted' = SaveState(groups, a1)
            /\ reply' = "admin added"
    /\ UNCHANGED <<groups, writable, phase, wpc, last_msg_id, fan, lastFetch,
                   batches, delivered>>
    /\ UNCHANGED <<restarts, stale>>

\* Variant of IsOwnerArg without the owner test.
IsOwnerArgNever(uid) == FALSE

\* uid == OWNER_ID in cmd_removeadmin
IsOwnerArg(uid) == uid = OWNER_ID

\* /removeadmin <user_id>
cmd_removeadmin(u, a) ==
    /\ CanHandle
    /\ ops' = ops + 1
    /\ IF u # OWNER_ID
       THEN /\ reply' = "only owner"
            /\ UNCHANGED <<admins, persisted>>
       ELSE IF ~IsUserIdLiteral(a)
       THEN /\ reply' = "invalid user id"
            /\ UNCHANGED <<admins, persisted>>
       ELSE IF IsOwnerArg(UserIdOf(a))
       THEN /\ reply' = "cannot remove owner"
            /\ UNCHANGED <<admins, persisted>>
       ELSE LET a1 == admins \ {UserIdOf(a)} IN
            /\ admins' = a1
            /\ persisted' = SaveState(groups, a1)
            /\ reply' = "admin removed"
    /\ UNCHANGED <<groups, writable, phase, wpc, last_msg_id, fan, lastFetch,
                   batches, delivered>>
    /\ UNCHANGED <<restarts, stale>>

\* /broadcast <text>: runs send_to_all_groups inside the handler
cmd_broadcast(u, hasMsg) ==
    /\ CanHandle
    /\ ops' = ops + 1
    /\ IF u # OWNER_ID
       THEN /\ reply' = "only owner"
            /\ UNCHANGED fan
       ELSE IF ~hasMsg
       THEN /\ reply' = "usage"
            /\ UNCHANGED fan
       ELSE LET fr == StartFanout(groups, BroadcastText) IN
            /\ fan' = [fan EXCEPT !["bcast"] = fr]
            /\ reply' = IF fr.active THEN reply ELSE "Broadcast sent"
    /\ UNCHANGED <<groups, admins, persisted, writable, phase, wpc,
                   last_msg_id, lastFetch, batches, delivered>>
    /\ UNCHANGED <<restarts, stale>>

\* The bot's own membership changed.  str(chat.id) of a group chat is a
\* canonical decimal, here "1".
DiscoveredKey == "1"
Statuses == {"member", "administrator", "left"}
ChatTypes == {"group", "supergroup", "private"}
Titles == {"T"}

my_chat_member(status, ctype, title) ==
    /\ CanHandle
    /\ ops' = ops + 1
    /\ IF /\ status \in {"member", "administrator"}
          /\ ctype \in {"group", "supergroup"}
          /\ ~DictHas(groups, DiscoveredKey)
       THEN LET g1 == DictSet(groups, DiscoveredKey,
                        GroupRec(DiscoveredKey,
                                 IF title = NoneVal THEN DiscoveredKey
                                 ELSE title,
                                 "Visit", "https://t.me/", 0, "absent")) IN
            /\ groups' = g1
            /\ fan' = Touch(fan, TRUE)
            /\ persisted' = SaveState(g1, admins)
       ELSE UNCHANGED <<groups, persisted, fan>>
    /\ UNCHANGED <<admins, writable, phase, wpc, last_msg_id, reply,
                   lastFetch, batches, delivered>>
    /\ UNCHANGED <<restarts, stale>>

\* --------------------------------------------------------------- restart
\* The process ends (at any point, a fan-out may be under way) and main()
\* is run again: the module level rebuilds the state dict, the stored
\* document stays, and otp_worker's last_msg_id is gone with the old task.
Restart ==
    /\ phase = "run"
    /\ restarts < MaxRestarts
    /\ restarts' = restarts + 1
    /\ stale' = fan["worker"].payload
    /\ groups' = <<>>
    /\ admins' = {OWNER_ID}
    /\ phase' = "boot"
    /\ wpc' = "off"
    /\ last_msg_id' = NoneVal
    /\ fan' = [c \in Callers |-> NoFan]
    /\ reply' = NoneVal
    /\ lastFetch' = Absent
    /\ batches' = [fp \in Fingerprints |-> 0]
    /\ delivered' = [x \in Chats \X Payloads |-> 0]
    /\ UNCHANGED <<persisted, writable, ops>>

\* ------------------------------------------------------------------ Next
Next ==
    \/ \E o \in LoadOutcomes : OnStartup(o)
    \/ \E sms \in FetchResults : Fetch(sms)
    \/ Wake
    \/ \E c \in Callers : SendOk(c)
    \/ \E c \in Callers : SendFail(c)
    \/ \E st \in Statuses, ct \in ChatTypes, t \in Titles :
          my_chat_member(st, ct, t)
    \/ \E u \in Users, k \in Keys, b \in Buttons :
          cmd_addgroup(u, k, b)
    \/ \E u \in Users, k \in Keys :
          cmd_removegroup(u, k)
    \/ \E u \in Users, k \in Keys, b \in Buttons :
          cmd_setbutton(u, k, b)
    \/ \E u \in Users, a \in AdminArgs :
          cmd_addadmin(u, a)
    \/ \E u \in Users, a \in AdminArgs :
          cmd_removeadmin(u, a)
    \/ \E u \in Users, m \in BOOLEAN : cmd_broadcast(u, m)
    \/ Restart

Spec == Init /\ [][Next]_vars

\* The event loop runs every task that is ready: the sleep's timer fires,
\* an awaited send_message returns or raises (its HTTP request has a
\* timeout), and fetch_latest_sms comes back (requests timeout=10).
LiveSpec ==
    /\ Spec
    /\ WF_vars(Wake)
    /\ WF_vars(SendOk("worker") \/ SendFail("worker"))
    /\ WF_vars(\E sms \in FetchResults : Fetch(sms))

\* ======================================================================
\* Properties
\* ======================================================================
\* The step of otp_worker that fetches and evaluates one source response.
IsFetchStep == wpc = "fetch" /\ wpc' \in {"send", "sleep"}

\* The events of the model whose body holds a keyword in some letter case,
\* and those whose body holds none, listed by hand.
OtpEvents == { Sms("n1", "t1", BodyOTP, <<>>),
               Sms("n2", NoneVal, <<>>, BodyCode) }
PlainEvents == { Sms("n1", "t1", BodyShip, <<>>) }

\* The worker's last send_to_all_groups call is over.
WorkerEnded == ~fan["worker"].active /\ fan["worker"].outcome # "none"

TriedKeys(c) == {fan[c].tried[i] : i \in 1..Len(fan[c].tried)}

\* C1: when two consecutive polls return the same keyword-matching event,
\* the second poll starts no fan-out, sends nothing and changes no counter.
C1_SameEventOneBatch ==
    [][ ( /\ IsFetchStep
          /\ lastFetch \in OtpEvents
          /\ lastFetch' \in OtpEvents
          /\ lastFetch'.num = lastFetch.num
          /\ lastFetch'.dt = lastFetch.dt )
        => ( /\ batches' = batches
             /\ fan' = fan
             /\ groups' = groups
             /\ delivered' = delivered ) ]_vars

\* C2: in one process lifetime the worker starts at most one fan-out batch
\* per fingerprint, whatever was forwarded in between.
C2_AtMostOncePerFingerprint ==
    \A fp \in Fingerprints : batches[fp] <= 1

\* C3: a poll that fetches an event without a keyword starts no fan-out and
\* sends nothing; a poll that fetches an event with a keyword (in any letter
\* case) and a fingerprint other than the cursor starts a fan-out in that
\* same step, sending to the first destination if there is one.
C3_KeywordFilter ==
    [][ IsFetchStep =>
        /\ ( lastFetch' \in PlainEvents =>
                /\ batches' = batches
                /\ fan' = fan
                /\ delivered' = delivered
                /\ groups' = groups
                /\ wpc' = "sleep" )
        /\ ( (lastFetch' \in OtpEvents /\ MsgId(lastFetch') # last_msg_id) =>
                /\ batches'[MsgId(lastFetch')] = batches[MsgId(lastFetch')] + 1
                /\ fan'["worker"].payload = MsgId(lastFetch')
                /\ (DictLen(groups) > 0 =>
                        /\ wpc' = "send"
                        /\ fan'["worker"].active
                        /\ Len(fan'["worker"].tried) = 1) ) ]_vars

\* C3 witness: an event with a keyword was forwarded, and the next poll
\* fetched an event without one and went to sleep.
C3_Witness ==
    /\ lastFetch \in PlainEvents
    /\ wpc = "sleep"
    /\ batches["n2_None"] = 1
    /\ batches["n1_t1"] = 0
    /\ delivered[<<"1", "n2_None">>] = 1

\* C4: in a fan-out in which a send failed, the call still returns normally
\* having attempted every destination of the store; the failed send changes
\* no counter and a successful send raises the counter of its destination.
C4_FailedSendIsolated ==
    [][ \A c \in Callers :
          ( /\ fan[c].active
            /\ ops' = ops
            /\ fan'[c] # fan[c]
            /\ fan'[c].anyFailed )
          => /\ ( ~fan'[c].active =>
                    /\ fan'[c].outcome = "returned"
                    /\ DictKeys(groups') \subseteq
                         {fan'[c].tried[i] : i \in 1..Len(fan'[c].tried)} )
             /\ ( delivered' = delivered => groups' = groups )
             /\ ( (delivered' # delivered /\ DictHas(groups, fan[c].cur)) =>
                    DictGet(groups', fan[c].cur).messages
                      = DictGet(groups, fan[c].cur).messages + 1 ) ]_vars

\* C5: the message count of a destination that stays in the store never
\* goes down.
C5_CountNeverDecreases ==
    [][ \A k \in Keys :
          (DictHas(groups, k) /\ DictHas(groups', k)) =>
             DictGet(groups', k).messages >= DictGet(groups, k).messages ]_vars

\* C6: a worker fan-out during which a handler added or removed a
\* destination still returns normally, leaves the cursor at its event, and
\* has delivered that event at most once to each chat.
C6_ChangeDuringFanout ==
    (WorkerEnded /\ fan["worker"].touched) =>
        /\ fan["worker"].outcome = "returned"
        /\ last_msg_id = fan["worker"].payload
        /\ \A ch \in Chats : delivered[<<ch, fan["worker"].payload>>] <= 1

\* C7: no fan-out attempts a send to a destination whose record says
\* enabled = false.
C7_DisabledNeverSent ==
    \A c \in Callers : \A k \in TriedKeys(c) :
        DictHas(groups, k) => DictGet(groups, k).enabled # "false"

\* C8: the owner is in the roster and authorized in every state, and a
\* remove-admin command that names the owner is refused with the roster
\* left as it was.
C8_OwnerAlwaysAdmin ==
    /\ [](OWNER_ID \in admins /\ is_admin(OWNER_ID))
    /\ [][ (ops' = ops + 1 /\ reply' = "cannot remove owner") =>
              admins' = admins ]_vars

\* C8 witness: a roster loaded from a document that does not list the owner,
\* and a remove-admin command naming the owner just refused.
C8_Witness ==
    /\ reply = "cannot remove owner"
    /\ persisted.present
    /\ OWNER_ID \notin persisted.admins
    /\ admins = {OWNER_ID, 2}

\* The keys of the live entries are pairwise different.
UniqueKeys(d) == Cardinality(DictKeys(d)) = DictLen(d)

\* C9: the store never holds two records with one id, and on every store
\* the program reaches an upsert of any id yields a store that holds the new
\* record under that id, has grown only if the id was new, and is unchanged
\* by the same upsert once more.
C9_OneRecordPerId ==
    /\ UniqueKeys(groups)
    /\ \A k \in Keys, b \in Buttons :
         LET rec == GroupRec(k, k, b[1], b[2], 0, "absent")
             g1 == DictSet(groups, k, rec) IN
         /\ UniqueKeys(g1)
         /\ DictHas(g1, k)
         /\ DictGet(g1, k) = rec
         /\ DictKeys(g1) = DictKeys(groups) \cup {k}
         /\ DictSet(g1, k, rec) = g1

\* C9 witness: the loaded document held "1" and "@c", and /addgroup 1 has
\* put its new record in the place of the old one.
C9_Witness ==
    /\ reply = "added"
    /\ Len(groups) = 2
    /\ groups[1] = GroupRec("1", "1", "b2", "u2", 0, "absent")
    /\ groups[2].key = "@c"
    /\ groups[2].enabled = "false"

\* C10: once the worker's fan-out for an event is over, whatever became of
\* its sends, the cursor is that event's fingerprint, and a next poll that
\* returns the same event starts no fan-out.
C10_CursorSetAfterFanout ==
    [][ /\ ( WorkerEnded' => last_msg_id' = fan'["worker"].payload )
        /\ ( ( /\ IsFetchStep
               /\ WorkerEnded
               /\ lastFetch'.kind = "dict"
               /\ MsgId(lastFetch') = fan["worker"].payload )
             => batches' = batches ) ]_vars

\* The step in which caller c's pending send_message returned normally.
SentOk(c) ==
    /\ fan[c].active
    /\ delivered'[<<ToChatId(fan[c].cur), fan[c].payload>>]
         = delivered[<<ToChatId(fan[c].cur), fan[c].payload>>] + 1

\* C11: the message count of a destination that stays in the store changes
\* only in the step in which a send to that destination succeeded, and then
\* by exactly one; and every successful send to a destination that is in
\* the store afterwards has raised its count by one in that same step.
C11_CountOnlyBySuccessfulSend ==
    [][ /\ \A k \in Keys :
             ( /\ DictHas(groups, k)
               /\ DictHas(groups', k)
               /\ DictGet(groups', k).messages # DictGet(groups, k).messages )
             => /\ \E c \in Callers : SentOk(c) /\ fan[c].cur = k
                /\ DictGet(groups', k).messages
                     = DictGet(groups, k).messages + 1
        /\ \A c \in Callers :
             ( /\ SentOk(c)
               /\ DictHas(groups, fan[c].cur)
               /\ DictHas(groups', fan[c].cur) )
             => DictGet(groups', fan[c].cur).messages
                  = DictGet(groups, fan[c].cur).messages + 1 ]_vars

\* A step of one of the five commands that change the store.
MutatingCommand ==
    \/ \E u \in Users, k \in Keys, b \in Buttons : cmd_addgroup(u, k, b)
    \/ \E u \in Users, k \in Keys : cmd_removegroup(u, k)
    \/ \E u \in Users, k \in Keys, b \in Buttons : cmd_setbutton(u, k, b)
    \/ \E u \in Users, a \in AdminArgs : cmd_addadmin(u, a)
    \/ \E u \in Users, a \in AdminArgs : cmd_removeadmin(u, a)

\* The replies with which those commands report that the change was made.
SuccessReplies ==
    {"added", "removed", "button updated", "admin added", "admin removed"}

\* C12: while the backend takes no writes, no mutating command reports
\* success; and a fan-out whose send succeeded leaves the document as it
\* was and goes on with the loop.
C12_WriteFailureReported ==
    [][ ~writable =>
          /\ ( (reply' \in SuccessReplies /\ ops' = ops + 1) =>
                  ~MutatingCommand )
          /\ \A c \in Callers :
                SentOk(c) => /\ persisted' = persisted
                             /\ fan'[c] = LoopTurn(fan[c], groups') ]_vars

\* C13: once started, the worker is never in a terminal state; every fetch
\* step and every end of its fan-out leads to the sleep; from the sleep it
\* gets back to the fetch, from a pending send to the sleep, and at the
\* fetch it fetches again (as long as the process is not shut down and the
\* run has operations left).
C13_WorkerKeepsPolling ==
    /\ [](phase = "run" => wpc \in {"fetch", "send", "sleep"})
    /\ [][ /\ ( (wpc = "fetch" /\ wpc' # "fetch") =>
                   (wpc' \in {"send", "sleep"} \/ phase' = "boot") )
           /\ ( (wpc = "send" /\ wpc' # "send") =>
                   (wpc' = "sleep" \/ phase' = "boot") ) ]_vars
    /\ (wpc = "send") ~> (wpc = "sleep" \/ phase = "boot")
    /\ (wpc = "sleep") ~> (wpc = "fetch" \/ phase = "boot")
    /\ (wpc = "fetch" /\ ops < MaxOps)
          ~> (wpc # "fetch" \/ ops = MaxOps \/ phase = "boot")

\* C13 witness: the worker is at its fetch again after a cycle in which
\* send_to_all_groups raised.
C13_Witness ==
    /\ wpc = "fetch"
    /\ fan["worker"].outcome = "raised"
    /\ lastFetch \in OtpEvents
    /\ last_msg_id = NoneVal

DestinationCommandBy(u) ==
    \/ \E k \in Keys, b \in Buttons : cmd_addgroup(u, k, b)
    \/ \E k \in Keys : cmd_removegroup(u, k)
    \/ \E k \in Keys, b \in Buttons : cmd_setbutton(u, k, b)
RosterCommandBy(u) ==
    \/ \E a \in AdminArgs : cmd_addadmin(u, a)
    \/ \E a \in AdminArgs : cmd_removeadmin(u, a)

\* C15: a destination command of an issuer who is neither the owner nor in
\* the roster, and a roster command of an issuer who is not the owner, is
\* refused and leaves destinations, roster and document as they were; so a
\* command that changes any of them comes from an authorized issuer.
C15_MutationsAuthorized ==
    [][ \A u \in Users :
          /\ ( (u # OWNER_ID /\ u \notin admins /\ ops' = ops + 1
                   /\ DestinationCommandBy(u))
                => /\ reply' = "not admin"
                   /\ UNCHANGED <<groups, admins, persisted>> )
          /\ ( (u # OWNER_ID /\ ops' = ops + 1 /\ RosterCommandBy(u))
                => /\ reply' = "only owner"
                   /\ UNCHANGED <<groups, admins, persisted>> ) ]_vars

\* C15 witness: the owner took user 2 off the loaded roster, and a
\* destination command of user 2 was then refused.
C15_Witness ==
    /\ reply = "not admin"
    /\ ops = 2
    /\ DictLen(groups) = 2
    /\ admins = {OWNER_ID}
    /\ persisted.present
    /\ persisted.admins = {OWNER_ID}

\* The document holds what the memory holds, and a load of it gives the
\* same destinations (records and order) and the same roster.
InSync ==
    /\ persisted.present
    /\ persisted.groups = LiveEntries(groups)
    /\ persisted.admins = admins
    /\ LiveEntries(LoadedGroups("ok")) = LiveEntries(groups)
    /\ LoadedAdmins("ok") = admins

\* A running process completes an operation that changes the store or
\* saves it: a change of groups or admins, a successful send, or a mutating
\* command that reports success.
CompletedMutation ==
    /\ phase = "run"
    /\ phase' = "run"
    /\ \/ groups' # groups
       \/ admins' # admins
       \/ \E c \in Callers : SentOk(c)
       \/ reply' \in SuccessReplies /\ ops' = ops + 1 /\ MutatingCommand

\* C16: with a backend that takes writes, every completed mutating
\* operation leaves the document equal to the in-memory destinations and
\* roster, so that loading it restores them; nothing but such an operation
\* changes the document, and a start of the process that finds a document
\* comes up with exactly its destinations and its roster plus the owner.
C16_PersistedEqualsMemory ==
    [][ /\ ( (writable /\ CompletedMutation) => InSync' )
        /\ ( persisted' # persisted => CompletedMutation )
        /\ ( (phase = "boot" /\ phase' = "run" /\ groups' # <<>>) =>
                /\ groups' = persisted.groups
                /\ admins' = persisted.admins \cup {OWNER_ID}
                /\ persisted' = persisted ) ]_vars

\* C16 witness: a successful send raised the count of destination 1 to 2,
\* the process was started again and has loaded that count and the roster.
C16_Witness ==
    /\ restarts = 1
    /\ phase = "run"
    /\ writable
    /\ DictHas(groups, "1")
    /\ DictGet(groups, "1").messages = 2
    /\ groups = persisted.groups
    /\ admins = {OWNER_ID, 2}
    /\ persisted.admins = admins

\* C17: a startup whose read of the backend fails completes all the same,
\* with no destinations, with the owner alone in the roster, with the
\* document untouched and with the worker at its first fetch; and a poll
\* that finds the store empty sends nothing, ends its fan-out at once and
\* goes to the sleep.
C17_UnreadableBackendDegrades ==
    [][ /\ ( OnStartup("fail") =>
                /\ phase' = "run"
                /\ wpc' = "fetch"
                /\ groups' = <<>>
                /\ admins' = {OWNER_ID}
                /\ persisted' = persisted )
        /\ ( (IsFetchStep /\ groups = <<>>) =>
                /\ wpc' = "sleep"
                /\ ~fan'["worker"].active
                /\ fan'["worker"].outcome \in {"none", "returned"}
                /\ delivered' = delivered
                /\ groups' = groups ) ]_vars

\* C17 witness: the process was started again over a document that holds
\* destinations, the read failed, and the worker has forwarded an event to
\* nobody and sleeps.
C17_Witness ==
    /\ restarts = 1
    /\ persisted.present
    /\ persisted.groups # <<>>
    /\ phase = "run"
    /\ groups = <<>>
    /\ admins = {OWNER_ID}
    /\ wpc = "sleep"
    /\ batches["n1_t1"] = 1
    /\ fan["worker"].outcome = "returned"
    /\ last_msg_id = "n1_t1"

\* C18: a /removegroup for an id the store does not hold changes neither
\* the destinations, the roster nor the document, disturbs no running
\* fan-out and no worker state, and is answered "not found" (or refused).
C18_RemoveAbsentIsNoOp ==
    [][ \A u \in Users, k \in Keys :
          ( /\ k \notin DictKeys(groups)
            /\ ops' = ops + 1
            /\ cmd_removegroup(u, k) ) =>
             /\ reply' \in {"not found", "not admin"}
             /\ UNCHANGED <<groups, admins, persisted, fan, phase, wpc,
                            last_msg_id>> ]_vars

\* C18 witness: destination @c was removed, and a second /removegroup @c
\* has been answered "not found" with destination 1 still in the store.
C18_Witness ==
    /\ reply = "not found"
    /\ ops = 2
    /\ Len(groups) = 2
    /\ DictKeys(groups) = {"1"}
    /\ DictGet(groups, "1").messages = 1

\* Since its start the process has forwarded no event other than the last
\* one the previous process forwarded.
OnlyStaleSinceStart ==
    /\ restarts > 0
    /\ phase = "run"
    /\ stale # NoneVal
    /\ \A fp \in Fingerprints \ {stale} : batches[fp] = 0

\* C19: a started process begins with an empty cursor; and while the only
\* event it forwards is the last one forwarded before the restart, it
\* starts at most one fan-out for it, and once that fan-out is over a poll
\* that returns the event again would not forward it.
C19_StaleEventOnce ==
    /\ [][ (phase = "boot" /\ phase' = "run") =>
              last_msg_id' = NoneVal ]_vars
    /\ [] ( OnlyStaleSinceStart =>
             /\ batches[stale] <= 1
             /\ ( (batches[stale] = 1 /\ wpc \in {"sleep", "fetch"}) =>
                     \A e \in Events :
                        MsgId(e) = stale => ~ShouldForward(e, last_msg_id) ) )

\* Event a, fetched by one poll, and event b, fetched by the next, differ in
\* origin or in timestamp, an omitted timestamp being the time of the poll.
DistinctEvents(a, b) ==
    \/ a.num # b.num
    \/ TimeSent(a, ClockReadings[1]) # TimeSent(b, ClockReadings[2])

\* C20: events with the same origin and the same reported timestamp have
\* the same fingerprint; and when two consecutive polls fetch events with a
\* keyword that differ in origin or in timestamp, the fingerprints differ
\* and the second poll starts a fan-out for its event.
C20_FingerprintSeparatesEvents ==
    /\ [] ( \A a \in Events, b \in Events :
               (a.num = b.num /\ a.dt = b.dt) => MsgId(a) = MsgId(b) )
    /\ [][ ( /\ IsFetchStep
             /\ lastFetch \in OtpEvents
             /\ lastFetch' \in OtpEvents
             /\ DistinctEvents(lastFetch, lastFetch') )
           => /\ MsgId(lastFetch') # MsgId(lastFetch)
              /\ batches'[MsgId(lastFetch')]
                   = batches[MsgId(lastFetch')] + 1 ]_vars

\* The record /addgroup k writes, and the record auto-discovery writes.
AdminRec(k, b) == GroupRec(k, k, b[1], b[2], 0, "absent")
DiscoveredRec(title) ==
    GroupRec(DiscoveredKey, title, "Visit", "https://t.me/", 0, "absent")

\* The bot was just added to the group DiscoveredKey, whose record is the
\* one an /addgroup put there as the last command.
DiscoveryAfterUpsert(st, ct, t) ==
    /\ ops' = ops + 1
    /\ reply = "added"
    /\ st \in {"member", "administrator"}
    /\ ct \in {"group", "supergroup"}
    /\ DictHas(groups, DiscoveredKey)
    /\ \E b \in Buttons :
          DictGet(groups, DiscoveredKey) = AdminRec(DiscoveredKey, b)
    /\ my_chat_member(st, ct, t)

\* C21: whichever of an /addgroup and an auto-discovery of the same id runs
\* last, the id's record afterwards is the one that operation writes: the
\* admin's record after an /addgroup, the default record after a discovery.
C21_LastWriteWins ==
    [][ /\ \A u \in Users, k \in Keys, b \in Buttons :
             ( /\ ops' = ops + 1
               /\ (u = OWNER_ID \/ u \in admins)
               /\ cmd_addgroup(u, k, b) )
             => /\ DictHas(groups', k)
                /\ DictGet(groups', k) = AdminRec(k, b)
        /\ \A st \in Statuses, ct \in ChatTypes, t \in Titles :
             DiscoveryAfterUpsert(st, ct, t)
             => /\ DictHas(groups', DiscoveredKey)
                /\ DictGet(groups', DiscoveredKey) = DiscoveredRec(t) ]_vars

\* The record under k is the one loaded from DocA: it was neither removed
\* nor written again by a command (no handler writes "enabled", and the
\* only button a command writes is not DocA's).
LoadedRecord(k) ==
    /\ phase = "run"
    /\ DictHas(groups, k)
    /\ \E i \in 1..Len(DocA.groups) :
          /\ DocA.groups[i].key = k
          /\ DictGet(groups, k).title = DocA.groups[i].title
          /\ DictGet(groups, k).button_text = DocA.groups[i].button_text
          /\ DictGet(groups, k).enabled = DocA.groups[i].enabled

\* The count DocA holds for k.
LoadedCount(k) ==
    LET i == CHOOSE j \in 1..Len(DocA.groups) : DocA.groups[j].key = k
    IN  DocA.groups[i].messages

\* Successful sends of this process to the chat of k, of every fan-out.
RECURSIVE SendsTo(_, _)
SendsTo(k, P) ==
    IF P = {} THEN 0
    ELSE LET p == CHOOSE x \in P : TRUE
         IN  delivered[<<ToChatId(k), p>>] + SendsTo(k, P \ {p})

\* C22: as long as the document read at startup is DocA as first stored, a
\* destination that was neither removed nor written again has the loaded
\* count plus one for every successful send to it, of the worker's fan-outs
\* and of the broadcasts together, however they overlap; and a successful
\* send to a destination that was removed meanwhile leaves the store, and
\* what a writable backend stores, without that destination.
C22_NoLostIncrement ==
    /\ [] ( \A k \in Keys :
              (LoadedRecord(k) /\ (restarts = 0 \/ ~writable)) =>
                 DictGet(groups, k).messages
                   = LoadedCount(k) + SendsTo(k, Payloads) )
    /\ [][ \A c \in Callers :
             (SentOk(c) /\ ~DictHas(groups, fan[c].cur)) =>
                /\ groups' = groups
                /\ (writable =>
                      \A i \in 1..Len(persisted'.groups) :
                         persisted'.groups[i].key # fan[c].cur) ]_vars

\* C22 witness: the worker's fan-out and a broadcast overlap; both have
\* delivered to destination 1, whose count went from 1 to 3, and both are
\* awaiting their send to @c.
C22_Witness ==
    /\ fan["worker"].active
    /\ fan["bcast"].active
    /\ fan["worker"].cur = "@c"
    /\ fan["bcast"].cur = "@c"
    /\ delivered[<<"1", "bc">>] = 1
    /\ delivered[<<"1", "n1_t1">>] = 1
    /\ DictGet(groups, "1").messages = 3

====
